---------------------------- MODULE Spec2Model ----------------------------
(***************************************************************************)
(* Model of core/cmd/solana_chains_commands.go: the CLI commands that      *)
(* list, create, remove and configure Solana chains over the HTTP API.    *)
(*                                                                         *)
(* One behaviour is one CLI invocation.  A command is a sequence of steps  *)
(* (pc), the named result `err`, the local `resp`, the stack of deferred   *)
(* closures, and the response bodies the HTTP client handed out.           *)
(* Strings whose characters matter (override tokens, keys, JSON text) are  *)
(* sequences of one-character strings.                                     *)
(***************************************************************************)
EXTENDS Integers, Sequences, FiniteSets, TLC

\* Longest override list c.Args() of a configure invocation.
MaxArgs == 2

---------------------------------------------------------------------------
(* Characters and JSON values *)

Q == "\""
BS == "\\"
EQ == "="

Digits == {"0", "1", "2", "3", "4", "5", "6", "7", "8", "9"}

\* A decoded JSON value (interface{}): a tag and the canonical text of the
\* value (for a string: its characters).
Val(t, v) == [t |-> t, v |-> v]
NullVal == Val("null", <<"n", "u", "l", "l">>)
TrueVal == Val("bool", <<"t", "r", "u", "e">>)
FalseVal == Val("bool", <<"f", "a", "l", "s", "e">>)
StrVal(s) == Val("str", s)
NumVal(s) == Val("num", s)

\* An integer literal of the JSON grammar: digits, no leading zero.  (Sign,
\* fraction and exponent are outside the characters the override tokens of
\* this model use.)
IsNumber(s) ==
    /\ Len(s) > 0
    /\ \A i \in 1..Len(s) : s[i] \in Digits
    /\ (Len(s) = 1 \/ s[1] # "0")

\* The characters of a JSON string literal's inside, unescaped: [ok, v].
\* A bare quote or a dangling backslash is a syntax error; the escapes are
\* those of a quote, a backslash and a slash.
RECURSIVE Unescape(_, _, _)
Unescape(s, i, acc) ==
    IF i > Len(s) THEN [ok |-> TRUE, v |-> acc]
    ELSE IF s[i] = Q THEN [ok |-> FALSE, v |-> <<>>]
    ELSE IF s[i] = BS
         THEN IF i + 1 <= Len(s) /\ s[i + 1] \in {Q, BS, "/"}
              THEN Unescape(s, i + 2, Append(acc, s[i + 1]))
              ELSE [ok |-> FALSE, v |-> <<>>]
    ELSE Unescape(s, i + 1, Append(acc, s[i]))

\* The index of the quote that closes the string literal whose inside
\* starts at i, or 0.
RECURSIVE CloseQuote(_, _)
CloseQuote(s, i) ==
    IF i > Len(s) THEN 0
    ELSE IF s[i] = BS THEN CloseQuote(s, i + 2)
    ELSE IF s[i] = Q THEN i
    ELSE CloseQuote(s, i + 1)

\* The text json.Marshal writes for a string: quoted, quote and backslash
\* escaped.
RECURSIVE Escape(_)
Escape(s) ==
    IF s = <<>> THEN <<>>
    ELSE (IF Head(s) \in {Q, BS} THEN <<BS, Head(s)>> ELSE <<Head(s)>>)
         \o Escape(Tail(s))

EncodeString(s) == <<Q>> \o Escape(s) \o <<Q>>

\* json.Marshal of a decoded value.
JSONEncode(val) == IF val.t = "str" THEN EncodeString(val.v) ELSE val.v

\* json.Unmarshal(text, &value) with value an interface{}: [ok, val].
\* Arrays and objects are decoded with at most one element or member (the
\* separator "," is outside the characters the override tokens of this
\* model use); their canonical text is what json.Marshal writes for them.
RECURSIVE JSONDecode(_)
JSONDecode(s) ==
    IF s = NullVal.v THEN [ok |-> TRUE, val |-> NullVal]
    ELSE IF s = TrueVal.v THEN [ok |-> TRUE, val |-> TrueVal]
    ELSE IF s = FalseVal.v THEN [ok |-> TRUE, val |-> FalseVal]
    ELSE IF IsNumber(s) THEN [ok |-> TRUE, val |-> NumVal(s)]
    ELSE IF Len(s) >= 2 /\ s[1] = Q /\ s[Len(s)] = Q
         THEN LET u == Unescape(SubSeq(s, 2, Len(s) - 1), 1, <<>>)
              IN  [ok |-> u.ok, val |-> StrVal(u.v)]
    ELSE IF Len(s) >= 2 /\ s[1] = "[" /\ s[Len(s)] = "]"
         THEN IF Len(s) = 2 THEN [ok |-> TRUE, val |-> Val("arr", s)]
              ELSE LET d == JSONDecode(SubSeq(s, 2, Len(s) - 1))
                   IN  [ok |-> d.ok,
                        val |-> Val("arr", <<"[">> \o JSONEncode(d.val)
                                              \o <<"]">>)]
    ELSE IF Len(s) >= 2 /\ s[1] = "{" /\ s[Len(s)] = "}"
         THEN IF Len(s) = 2 THEN [ok |-> TRUE, val |-> Val("obj", s)]
              ELSE LET in == SubSeq(s, 2, Len(s) - 1)
                       j == IF in[1] = Q THEN CloseQuote(in, 2) ELSE 0
                   IN  IF j = 0 \/ j + 2 > Len(in) \/ in[j + 1] # ":"
                       THEN [ok |-> FALSE, val |-> StrVal(<<>>)]
                       ELSE LET k == Unescape(SubSeq(in, 2, j - 1), 1, <<>>)
                                d == JSONDecode(SubSeq(in, j + 2, Len(in)))
                            IN  [ok |-> k.ok /\ d.ok,
                                 val |-> Val("obj",
                                             <<"{">> \o EncodeString(k.v)
                                             \o <<":">> \o JSONEncode(d.val)
                                             \o <<"}">>)]
    ELSE [ok |-> FALSE, val |-> StrVal(<<>>)]

---------------------------------------------------------------------------
(* Override tokens: strings.SplitN and the value fallback *)

RECURSIVE IndexOfEq(_, _)
IndexOfEq(s, i) ==
    IF i > Len(s) THEN 0
    ELSE IF s[i] = EQ THEN i
    ELSE IndexOfEq(s, i + 1)

RECURSIVE LastIndexOfEq(_, _)
LastIndexOfEq(s, i) ==
    IF i < 1 THEN 0
    ELSE IF s[i] = EQ THEN i
    ELSE LastIndexOfEq(s, i - 1)

\* The token split at its last "=" instead of its first.
SplitAtLast(arg) ==
    LET i == LastIndexOfEq(arg, Len(arg))
    IN  IF i = 0 THEN <<arg>>
        ELSE <<SubSeq(arg, 1, i - 1), SubSeq(arg, i + 1, Len(arg))>>

\* strings.SplitN(arg, "=", 2): one part when arg holds no "=", else the
\* text before the first "=" and everything after it.
SplitN2(arg) ==
    LET i == IndexOfEq(arg, 1)
    IN  IF i = 0 THEN <<arg>>
        ELSE <<SubSeq(arg, 1, i - 1), SubSeq(arg, i + 1, Len(arg))>>

\* The value of an override kept as the raw string, never decoded.
ParseValueVerbatim(raw) == StrVal(raw)

\* The value of an override: the decoded JSON value, else the raw string.
ParseValue(raw) ==
    LET d == JSONDecode(raw)
    IN  IF d.ok THEN d.val ELSE StrVal(raw)

\* An error value: nil, or its causes and whether it is the exit error.
NoErr == [exit |-> FALSE, causes |-> <<>>]
NewErr(msg) == [exit |-> FALSE, causes |-> <<msg>>]

\* m[k] = v on a Go map.
Put(m, k, v) == [x \in (DOMAIN m) \cup {k} |-> IF x = k THEN v ELSE m[x]]

EmptyMap == [x \in {} |-> NullVal]

\* The loop over c.Args(): params after the tokens i.., or the index of the
\* first token that does not split in two.  e is what json.Unmarshal
\* answered for the value of the token before (it is assigned to err).
RECURSIVE ParseLoop(_, _, _, _)
ParseLoop(as, i, params, e) ==
    IF i > Len(as) THEN [ok |-> TRUE, params |-> params, bad |-> 0, err |-> e]
    ELSE LET parts == SplitN2(as[i])
         IN  IF Len(parts) # 2
             THEN [ok |-> FALSE, params |-> params, bad |-> i, err |-> e]
             ELSE ParseLoop(as, i + 1,
                            Put(params, parts[1], ParseValue(parts[2])),
                            IF JSONDecode(parts[2]).ok THEN NoErr
                            ELSE NewErr("invalid character"))

\* The loop with a token that does not split skipped instead of rejected.
RECURSIVE ParseLoopSkip(_, _, _, _)
ParseLoopSkip(as, i, params, e) ==
    IF i > Len(as) THEN [ok |-> TRUE, params |-> params, bad |-> 0, err |-> e]
    ELSE LET parts == SplitN2(as[i])
         IN  IF Len(parts) # 2
             THEN ParseLoopSkip(as, i + 1, params, e)
             ELSE ParseLoopSkip(as, i + 1,
                                Put(params, parts[1], ParseValue(parts[2])),
                                IF JSONDecode(parts[2]).ok THEN NoErr
                                ELSE NewErr("invalid character"))

ParseOverridesSkipMalformed(as) == ParseLoopSkip(as, 1, EmptyMap, NoErr)

ParseOverrides(as) == ParseLoop(as, 1, EmptyMap, NoErr)

\* json.Marshal(params): the members of the object, key and value as JSON
\* text (a Go map has each key once; the member order plays no part below).
MarshalParams(params) ==
    {<<EncodeString(k), JSONEncode(params[k])>> : k \in DOMAIN params}

\* json.Unmarshal(rawUpdates, &config) into the map config: every member of
\* the object is decoded and assigned to its key, the other entries of the
\* map are kept.  [ok, config].
UnmarshalInto(config, raw) ==
    LET dec == {<<JSONDecode(m[1]), JSONDecode(m[2])>> : m \in raw}
        keys == {d[1].val.v : d \in dec}
        valueOf(k) == (CHOOSE d \in dec : d[1].val.v = k)[2].val
    IN  IF \E d \in dec : ~d[1].ok \/ ~d[2].ok \/ d[1].val.t # "str"
        THEN [ok |-> FALSE, config |-> config]
        ELSE [ok |-> TRUE,
              config |-> [k \in (DOMAIN config) \cup keys |->
                            IF k \in keys THEN valueOf(k) ELSE config[k]]]

\* The updates deserialized into a fresh map instead of the fetched config.
MergeConfigFromEmpty(config, params) ==
    UnmarshalInto(EmptyMap, MarshalParams(params))

\* The updates appended to the string values already there instead of
\* replacing them.
MergeConfigAppending(config, params) ==
    LET r == UnmarshalInto(config, MarshalParams(params))
    IN  [ok |-> r.ok,
         config |-> [k \in DOMAIN r.config |->
                       IF /\ k \in DOMAIN config
                          /\ k \in DOMAIN params
                          /\ config[k].t = "str"
                          /\ r.config[k].t = "str"
                       THEN StrVal(config[k].v \o r.config[k].v)
                       ELSE r.config[k]]]

\* A null update deleting the key instead of storing null.
MergeConfigNullDeletes(config, params) ==
    LET r == UnmarshalInto(config, MarshalParams(params))
    IN  [ok |-> r.ok,
         config |-> [k \in {x \in DOMAIN r.config : r.config[x] # NullVal}
                       |-> r.config[k]]]

\* Lines 180-188: the updates are serialized and deserialized over the
\* fetched config.
MergeConfig(config, params) == UnmarshalInto(config, MarshalParams(params))

---------------------------------------------------------------------------
(* Errors *)

\* cli.errorOut: nil stays nil, an error becomes the exit error carrying
\* its message.
errorOut(e) == IF e = NoErr THEN NoErr ELSE [exit |-> TRUE, causes |-> e.causes]

\* multierr.Append: nil is the unit, else the causes of both, in order.
multierrAppend(a, b) ==
    IF a = NoErr THEN b
    ELSE IF b = NoErr THEN a
    ELSE [exit |-> FALSE, causes |-> a.causes \o b.causes]

CloseErrMsg(h) == "close " \o h

\* The deferred closure with err = cerr: the close error shadows the cause.
DeferredCloseShadowing(e, h, fails) ==
    IF fails THEN NewErr(CloseErrMsg(h)) ELSE e

\* The body of a deferred closure once resp.Body.Close() has answered:
\* the new value of the named result err.
DeferredClose(e, h, fails) ==
    IF fails THEN multierrAppend(e, NewErr(CloseErrMsg(h))) ELSE e

MsgNoParams == "must pass in the chain's parameters"
MsgNoID == "missing chain ID"
MsgNoRemoveID == "must pass the id of the chain to be removed"
MsgNoOverrides == "must pass in at least one chain configuration parameters"
MsgInvalidParam == "invalid parameter"
MsgTransport == "transport error"
MsgDecode == "decode error"
MsgBuffer == "invalid JSON or file not found"
MsgMarshal == "json: error calling MarshalJSON"

---------------------------------------------------------------------------
(* Inputs of an invocation *)

\* Override tokens of the command line.
TokA1 == <<"a", "=", "1">>
TokAx == <<"a", "=", "x">>
TokBare == <<"a">>
TokNoKey == <<"=", "x">>
TokNoValue == <<"a", "=">>
TokTwoEq == <<"a", "=", "b", "=", "1">>
TokNull == <<"b", "=", "n", "u", "l", "l">>
TokQuoted == <<"a", "=", Q, "1", Q>>
TokEnabled == <<"e", "n", "a", "b", "l", "e", "d", "=", "t", "r", "u", "e">>
TokObject == <<"c", "=", "{", Q, "a", Q, ":", "1", "}">>
TokArray == <<"c", "=", "[", "1", "]">>

Tokens ==
    {TokA1, TokAx, TokBare, TokNoKey, TokNoValue, TokTwoEq, TokNull,
     TokQuoted, TokEnabled, TokObject, TokArray}

ArgLists == UNION {[1..n -> Tokens] : n \in 0..MaxArgs}

\* The -id flag: unset (empty) or set.
ChainIDs == {"", "devnet"}

KeyA == <<"a">>
KeyB == <<"b">>
KeyC == <<"c">>
KeyEnabled == <<"e", "n", "a", "b", "l", "e", "d">>

\* The chain resources the node may hold: the enabled flag and the config
\* document (a map from top-level key to value).
Backends ==
    {[enabled |-> FALSE, config |-> EmptyMap],
     [enabled |-> TRUE, config |-> [k \in {KeyA} |-> NumVal(<<"5">>)]],
     [enabled |-> FALSE,
      config |-> [k \in {KeyA, KeyC} |->
                    IF k = KeyA THEN StrVal(<<"x">>) ELSE NumVal(<<"7">>)]],
     [enabled |-> TRUE,
      config |-> [k \in {KeyB, KeyC} |->
                    IF k = KeyB THEN TrueVal ELSE StrVal(<<"y">>)]]}

NoChain == [enabled |-> FALSE, config |-> EmptyMap]
NoBody == [enabled |-> FALSE, config |-> EmptyMap]

\* Response bodies an invocation can be handed: one per successful request,
\* and the body of a response returned together with a transport error.
Bodies == {"GET", "PATCH", "POST", "DELETE", "ERR"}

---------------------------------------------------------------------------
(* Rendering: SolanaChainPresenter and SolanaChainPresenters *)

\* Longest page of resources a list request is answered with.
MaxPage == 2

\* The resources a response may carry: id, enabled, config, and the two
\* timestamps (as instants counted from an epoch).
Resources ==
    {[id |-> "devnet", enabled |-> TRUE,
      config |-> [k \in {KeyA} |-> NumVal(<<"5">>)],
      createdAt |-> 1, updatedAt |-> 2],
     [id |-> "testnet", enabled |-> FALSE,
      config |-> [k \in {KeyB} |-> StrVal(<<"y">>)],
      createdAt |-> 3, updatedAt |-> 3]}

Pages == UNION {[1..n -> Resources] : n \in 0..MaxPage}

\* strconv.FormatBool.
FormatBool(b) == IF b THEN "true" ELSE "false"

\* time.Time.String(): the text of the instant.
TimeString(t) == ToString(t)

\* json.MarshalIndent(p.Config, "", "    "): the members of the object as
\* JSON text, and the indent they are written with.
MarshalIndent(config) ==
    [indent |-> "    ",
     members |-> {<<EncodeString(k), JSONEncode(config[k])>> :
                    k \in DOMAIN config}]

\* Lines 25-40.
ToRow(p) ==
    <<p.id, FormatBool(p.enabled), MarshalIndent(p.config),
      TimeString(p.createdAt), TimeString(p.updatedAt)>>

\* Lines 45 and 59.
Headers == <<"ID", "Enabled", "Config", "Created", "Updated">>

\* renderList(headers, rows, writer): the header row is written, then the
\* rows in the order given.
renderList(headers, rows) == <<headers>> \o rows

\* The rows built by prepending each row: the page comes out reversed.
RECURSIVE PresentersRowsReversed(_)
PresentersRowsReversed(ps) ==
    IF ps = <<>> THEN <<>>
    ELSE Append(PresentersRowsReversed(Tail(ps)), ToRow(ps[1]))

\* Lines 60-64: rows built by appending p.ToRow() for each p of ps.
RECURSIVE PresentersRows(_)
PresentersRows(ps) ==
    IF ps = <<>> THEN <<>>
    ELSE Append(PresentersRows(SubSeq(ps, 1, Len(ps) - 1)),
                ToRow(ps[Len(ps)]))

\* Lines 44-52.
PresenterRenderTable(p) == renderList(Headers, Append(<<>>, ToRow(p)))

\* Lines 58-69.
PresentersRenderTable(ps) == renderList(Headers, PresentersRows(ps))

---------------------------------------------------------------------------
(* State *)

VARIABLES
    cmd,        \* the command invoked: "none", "create", "remove", "configure"
    chainID,    \* c.String("id")
    args,       \* c.Args()
    backend,    \* the chain resource the node holds
    pc,         \* position in the command
    err,        \* the named result err
    primary,    \* the value the return statement gave err, before the defers
    resp,       \* the local resp: "nil" or the body of the response it points to
    bodies,     \* each body: "absent", "open" or "closed"
    closes,     \* each body: the number of Close calls made on it
    closeLog,   \* the Close calls made: <<defer registered after, body closed>>
    closeErrs,  \* the messages of the Close calls that failed, in order
    defers,     \* the deferred closures, last registered last
    panicking,  \* a deferred closure dereferenced a nil resp
    calls,      \* the requests issued, in order
    buf,        \* create: what getBufferFromJSON gave
    chain,      \* configure: the resource decoded from the GET response
    decoded,    \* configure: deserializeAPIResponse succeeded
    params,     \* configure: the parsed overrides
    config,     \* configure: the config document being rebuilt
    merged,     \* configure: line 185 has run
    body,       \* configure: the document the PATCH carried
    output,     \* what was written to the output, in order
    shown,      \* the resources handed to RenderTable, in order
    table,      \* the rows renderList was given to write, the header first
    outcome     \* "running", "returned", "panicked"

vars ==
    <<cmd, chainID, args, backend, pc, err, primary, resp, bodies, closes,
      closeLog, closeErrs, defers, panicking, calls, buf, chain, decoded,
      params, config, merged, body, output, shown, table, outcome>>

inputVars == <<cmd, chainID, args, backend>>
cfgVars == <<chain, decoded, params, config, merged, body>>
respVars == <<resp, bodies, closes, closeLog, closeErrs, defers, panicking>>
outVars == <<output, shown, table>>

Init ==
    /\ cmd = "none"
    /\ chainID = ""
    /\ args = <<>>
    /\ backend = NoChain
    /\ pc = "idle"
    /\ err = NoErr
    /\ primary = NoErr
    /\ resp = "nil"
    /\ bodies = [b \in Bodies |-> "absent"]
    /\ closes = [b \in Bodies |-> 0]
    /\ closeLog = <<>>
    /\ closeErrs = <<>>
    /\ defers = <<>>
    /\ panicking = FALSE
    /\ calls = <<>>
    /\ buf = "none"
    /\ chain = NoChain
    /\ decoded = FALSE
    /\ params = EmptyMap
    /\ config = EmptyMap
    /\ merged = FALSE
    /\ body = NoBody
    /\ output = <<>>
    /\ shown = <<>>
    /\ table = <<>>
    /\ outcome = "running"

\* `return e`: the named result is set, then the deferred closures run.
Return(e) ==
    /\ err' = e
    /\ primary' = e
    /\ pc' = "return"

\* A request answered with a response: resp points to its open body.
Acquire(b) ==
    /\ resp' = b
    /\ bodies' = [bodies EXCEPT ![b] = "open"]

\* A request that failed in transport: no body was acquired.  resp is nil
\* or points to a response whose body the client has already closed (the
\* HTTP client is injected; both are answers it can give with an error).
Failed ==
    \E r \in {"nil", "ERR"} :
        /\ resp' = r
        /\ bodies' = IF r = "ERR" THEN [bodies EXCEPT !["ERR"] = "closed"]
                     ELSE bodies

\* defer func() { if cerr := resp.Body.Close(); cerr != nil { ... } }()
Defer(site) == defers' = Append(defers, site)

---------------------------------------------------------------------------
(* configure: ConfigureSolanaChain *)

InvokeConfigure ==
    /\ pc = "idle"
    /\ \E id \in ChainIDs, as \in ArgLists, b \in Backends :
        /\ cmd' = "configure"
        /\ chainID' = id
        /\ args' = as
        /\ backend' = b
    /\ pc' = "cfg_validate"
    /\ UNCHANGED <<err, primary, respVars, calls, buf, cfgVars, outVars, outcome>>

\* The validation without the check of the id.
CfgValidateNoIDCheck ==
    /\ pc = "cfg_validate"
    /\ \/ /\ args = <<>>
          /\ Return(errorOut(NewErr(MsgNoOverrides)))
       \/ /\ args # <<>>
          /\ pc' = "cfg_get"
          /\ UNCHANGED <<err, primary>>
    /\ UNCHANGED <<inputVars, respVars, calls, buf, cfgVars, outVars, outcome>>

\* Lines 136-143.
CfgValidate ==
    /\ pc = "cfg_validate"
    /\ \/ /\ chainID = ""
          /\ Return(errorOut(NewErr(MsgNoID)))
       \/ /\ chainID # ""
          /\ args = <<>>
          /\ Return(errorOut(NewErr(MsgNoOverrides)))
       \/ /\ chainID # ""
          /\ args # <<>>
          /\ pc' = "cfg_get"
          /\ UNCHANGED <<err, primary>>
    /\ UNCHANGED <<inputVars, respVars, calls, buf, cfgVars, outVars, outcome>>

\* Lines 146-154: the GET, and the first deferred close.
CfgGet ==
    /\ pc = "cfg_get"
    /\ calls' = Append(calls, "GET")
    /\ \/ /\ Failed
          /\ Return(errorOut(NewErr(MsgTransport)))
          /\ UNCHANGED defers
       \/ /\ Acquire("GET")
          /\ Defer("GET")
          /\ pc' = "cfg_decode"
          /\ UNCHANGED <<err, primary>>
    /\ UNCHANGED <<inputVars, closes, closeLog, closeErrs, panicking, buf,
                   cfgVars, outVars, outcome>>

\* The decoding with its error ignored.
CfgDecodeIgnoringError ==
    /\ pc = "cfg_decode"
    /\ \/ /\ pc' = "cfg_parse"
          /\ UNCHANGED <<chain, decoded, config, err, primary>>
       \/ /\ chain' = backend
          /\ decoded' = TRUE
          /\ config' = backend.config
          /\ pc' = "cfg_parse"
          /\ UNCHANGED <<err, primary>>
    /\ UNCHANGED <<inputVars, respVars, calls, buf, params, merged, body,
                   outVars, outcome>>

\* Lines 155-159.
CfgDecode ==
    /\ pc = "cfg_decode"
    /\ \/ /\ Return(errorOut(NewErr(MsgDecode)))
          /\ UNCHANGED <<chain, decoded, config>>
       \/ /\ chain' = backend
          /\ decoded' = TRUE
          /\ config' = backend.config
          /\ pc' = "cfg_parse"
          /\ UNCHANGED <<err, primary>>
    /\ UNCHANGED <<inputVars, respVars, calls, buf, params, merged, body,
                   outVars, outcome>>

\* Lines 162-176.  After the loop err holds what json.Unmarshal answered
\* for the last value; line 180 overwrites it.
CfgParse ==
    /\ pc = "cfg_parse"
    /\ LET r == ParseOverrides(args)
       IN  /\ params' = r.params
           /\ IF r.ok
              THEN /\ pc' = "cfg_merge"
                   /\ err' = r.err
                   /\ UNCHANGED primary
              ELSE Return(errorOut(NewErr(MsgInvalidParam)))
    /\ UNCHANGED <<inputVars, respVars, calls, buf, chain, decoded, config,
                   merged, body, outVars, outcome>>

\* Lines 180-188.
CfgMerge ==
    /\ pc = "cfg_merge"
    /\ LET r == MergeConfig(config, params)
       IN  IF r.ok
           THEN /\ config' = r.config
                /\ merged' = TRUE
                /\ err' = NoErr
                /\ pc' = "cfg_patch"
                /\ UNCHANGED primary
           ELSE /\ Return(errorOut(NewErr("json: cannot unmarshal")))
                /\ UNCHANGED <<config, merged>>
    /\ UNCHANGED <<inputVars, respVars, calls, buf, chain, decoded, params,
                   body, outVars, outcome>>

\* The document sent with enabled read from the merged config.
PatchBodyEnabledFromConfig(c, cfg) ==
    [enabled |-> IF <<"e", "n", "a", "b", "l", "e", "d">> \in DOMAIN cfg
                 THEN cfg[<<"e", "n", "a", "b", "l", "e", "d">>] = TrueVal
                 ELSE c.enabled,
     config |-> cfg]

\* Lines 191-194: the document sent.
PatchBody(c, cfg) == [enabled |-> c.enabled, config |-> cfg]

\* Lines 191-207: the PATCH, and the second deferred close.
CfgPatch ==
    /\ pc = "cfg_patch"
    /\ body' = PatchBody(chain, config)
    /\ calls' = Append(calls, "PATCH")
    /\ \/ /\ Failed
          /\ Return(errorOut(NewErr(MsgTransport)))
          /\ UNCHANGED defers
       \/ /\ Acquire("PATCH")
          /\ Defer("PATCH")
          /\ pc' = "cfg_render"
          /\ UNCHANGED <<err, primary>>
    /\ UNCHANGED <<inputVars, closes, closeLog, closeErrs, panicking, buf,
                   chain, decoded, params, config, merged, outVars, outcome>>

\* Line 209 (and line 112 of create): renderAPIResponse decodes the
\* response and renders the resource, or fails.
Render ==
    /\ pc \in {"cfg_render", "create_render"}
    /\ \/ /\ Return(errorOut(NewErr(MsgDecode)))
          /\ UNCHANGED outVars
       \/ /\ \E p \in Resources :
                /\ shown' = <<p>>
                /\ table' = PresenterRenderTable(p)
          /\ output' = Append(output, "table")
          /\ Return(errorOut(NoErr))
    /\ UNCHANGED <<inputVars, respVars, calls, buf, cfgVars, outcome>>

---------------------------------------------------------------------------
(* The deferred closures and the end of the command *)

\* One deferred closure runs, last registered first.  It reads the variable
\* resp as it is now.
RunDeferred ==
    /\ pc = "return"
    /\ defers # <<>>
    /\ defers' = SubSeq(defers, 1, Len(defers) - 1)
    /\ \/ /\ resp = "nil"
          /\ panicking' = TRUE
          /\ UNCHANGED <<err, bodies, closes, closeLog, closeErrs>>
       \/ /\ resp # "nil"
          /\ bodies' = [bodies EXCEPT ![resp] = "closed"]
          /\ closes' = [closes EXCEPT ![resp] = @ + 1]
          /\ closeLog' = Append(closeLog, <<defers[Len(defers)], resp>>)
          /\ \E fails \in BOOLEAN :
                /\ err' = DeferredClose(err, resp, fails)
                /\ closeErrs' = IF fails
                                THEN Append(closeErrs, CloseErrMsg(resp))
                                ELSE closeErrs
          /\ UNCHANGED panicking
    /\ UNCHANGED <<inputVars, pc, primary, resp, calls, buf, cfgVars, outVars,
                   outcome>>

Finish ==
    /\ pc = "return"
    /\ defers = <<>>
    /\ pc' = "done"
    /\ outcome' = IF panicking THEN "panicked" ELSE "returned"
    /\ UNCHANGED <<inputVars, err, primary, respVars, calls, buf, cfgVars,
                   outVars>>

---------------------------------------------------------------------------
(* list: IndexSolanaChains *)

InvokeList ==
    /\ pc = "idle"
    /\ cmd' = "list"
    /\ pc' = "list_page"
    /\ UNCHANGED <<chainID, args, backend, err, primary, respVars, calls, buf,
                   cfgVars, outVars, outcome>>

\* Lines 72-74: getPage requests the page, decodes it into the presenters
\* and renders them, or fails.  The response is getPage's own.
ListPage ==
    /\ pc = "list_page"
    /\ calls' = Append(calls, "GET")
    /\ \/ /\ \E m \in {MsgTransport, MsgDecode} : Return(errorOut(NewErr(m)))
          /\ UNCHANGED outVars
       \/ /\ \E ps \in Pages :
                /\ shown' = ps
                /\ table' = PresentersRenderTable(ps)
          /\ output' = Append(output, "table")
          /\ Return(NoErr)
    /\ UNCHANGED <<inputVars, respVars, buf, cfgVars, outcome>>

---------------------------------------------------------------------------
(* create: CreateSolanaChain *)

\* The positional arguments of create and remove: none, or one.
OneArgLists == {<<>>, <<<<"{", "}">>>>, <<<<"f">>>>}

InvokeCreate ==
    /\ pc = "idle"
    /\ \E id \in ChainIDs, as \in OneArgLists :
        /\ cmd' = "create"
        /\ chainID' = id
        /\ args' = as
    /\ pc' = "create_validate"
    /\ UNCHANGED <<backend, err, primary, respVars, calls, buf, cfgVars,
                   outVars, outcome>>

\* Lines 78-84.
CreateValidate ==
    /\ pc = "create_validate"
    /\ \/ /\ args = <<>>
          /\ Return(errorOut(NewErr(MsgNoParams)))
       \/ /\ args # <<>>
          /\ chainID = ""
          /\ Return(errorOut(NewErr(MsgNoID)))
       \/ /\ args # <<>>
          /\ chainID # ""
          /\ pc' = "create_buffer"
          /\ UNCHANGED <<err, primary>>
    /\ UNCHANGED <<inputVars, respVars, calls, buf, cfgVars, outVars, outcome>>

\* Lines 86-89: getBufferFromJSON fails, or gives the argument (valid JSON)
\* or the contents of the file it names (any bytes).
CreateBuffer ==
    /\ pc = "create_buffer"
    /\ \/ /\ Return(errorOut(NewErr(MsgBuffer)))
          /\ UNCHANGED buf
       \/ /\ \E b \in {"json", "bytes"} : buf' = b
          /\ pc' = "create_marshal"
          /\ UNCHANGED <<err, primary>>
    /\ UNCHANGED <<inputVars, respVars, calls, cfgVars, outVars, outcome>>

\* Lines 91-99: json.Marshal rejects a RawMessage that is not JSON.
CreateMarshal ==
    /\ pc = "create_marshal"
    /\ \/ /\ buf = "bytes"
          /\ Return(errorOut(NewErr(MsgMarshal)))
       \/ /\ buf = "json"
          /\ pc' = "create_post"
          /\ UNCHANGED <<err, primary>>
    /\ UNCHANGED <<inputVars, respVars, calls, buf, cfgVars, outVars, outcome>>

\* Lines 101-110.
CreatePost ==
    /\ pc = "create_post"
    /\ calls' = Append(calls, "POST")
    /\ \/ /\ Failed
          /\ Return(errorOut(NewErr(MsgTransport)))
          /\ UNCHANGED defers
       \/ /\ Acquire("POST")
          /\ Defer("POST")
          /\ pc' = "create_render"
          /\ UNCHANGED <<err, primary>>
    /\ UNCHANGED <<inputVars, closes, closeLog, closeErrs, panicking, buf,
                   cfgVars, outVars, outcome>>

---------------------------------------------------------------------------
(* remove: RemoveSolanaChain *)

InvokeRemove ==
    /\ pc = "idle"
    /\ \E as \in OneArgLists :
        /\ cmd' = "remove"
        /\ args' = as
    /\ pc' = "remove_validate"
    /\ UNCHANGED <<chainID, backend, err, primary, respVars, calls, buf,
                   cfgVars, outVars, outcome>>

\* Lines 117-120.
RemoveValidate ==
    /\ pc = "remove_validate"
    /\ \/ /\ args = <<>>
          /\ Return(errorOut(NewErr(MsgNoRemoveID)))
       \/ /\ args # <<>>
          /\ pc' = "remove_delete"
          /\ UNCHANGED <<err, primary>>
    /\ UNCHANGED <<inputVars, respVars, calls, buf, cfgVars, outVars, outcome>>

\* Lines 121-124.  No close is deferred.
RemoveDelete ==
    /\ pc = "remove_delete"
    /\ calls' = Append(calls, "DELETE")
    /\ \/ /\ Failed
          /\ Return(errorOut(NewErr(MsgTransport)))
       \/ /\ Acquire("DELETE")
          /\ pc' = "remove_parse"
          /\ UNCHANGED <<err, primary>>
    /\ UNCHANGED <<inputVars, closes, closeLog, closeErrs, defers, panicking,
                   buf, cfgVars, outVars, outcome>>

\* Lines 125-131: parseResponse reads the body (it does not close it).
RemoveParse ==
    /\ pc = "remove_parse"
    /\ \/ /\ Return(errorOut(NewErr(MsgDecode)))
          /\ UNCHANGED outVars
       \/ /\ output' = Append(output, "Chain deleted")
          /\ UNCHANGED <<shown, table>>
          /\ Return(NoErr)
    /\ UNCHANGED <<inputVars, respVars, calls, buf, cfgVars, outcome>>

---------------------------------------------------------------------------

Next ==
    \/ InvokeConfigure
    \/ CfgValidate
    \/ CfgGet
    \/ CfgDecode
    \/ CfgParse
    \/ CfgMerge
    \/ CfgPatch
    \/ Render
    \/ InvokeList
    \/ ListPage
    \/ InvokeCreate
    \/ CreateValidate
    \/ CreateBuffer
    \/ CreateMarshal
    \/ CreatePost
    \/ InvokeRemove
    \/ RemoveValidate
    \/ RemoveDelete
    \/ RemoveParse
    \/ RunDeferred
    \/ Finish

Spec == Init /\ [][Next]_vars

---------------------------------------------------------------------------
(* Properties *)

Sent(verb) == \E i \in 1..Len(calls) : calls[i] = verb

\* A token without a separator.
Malformed(t) == \A i \in 1..Len(t) : t[i] # EQ

KeyOf(t) == SubSeq(t, 1, (CHOOSE i \in 1..Len(t) :
                            t[i] = EQ /\ \A j \in 1..(i - 1) : t[j] # EQ) - 1)
RawOf(t) == SubSeq(t, (CHOOSE i \in 1..Len(t) :
                         t[i] = EQ /\ \A j \in 1..(i - 1) : t[j] # EQ) + 1, Len(t))

OverrideKeys(as) == {KeyOf(as[i]) : i \in 1..Len(as)}

LastOf(as, k) ==
    CHOOSE i \in 1..Len(as) :
        KeyOf(as[i]) = k /\ \A j \in (i + 1)..Len(as) : KeyOf(as[j]) # k

\* configure was given an id and overrides, one of them without a separator.
MalformedCase ==
    /\ cmd = "configure"
    /\ chainID # ""
    /\ args # <<>>
    /\ \E i \in 1..Len(args) : Malformed(args[i])

\* C1 as stated: a configure invocation with a token that has no "=" ends
\* in the validation error without any request (GET or PATCH) issued.
C1_ValidationBeforeAnyCall ==
    (MalformedCase /\ pc = "done") =>
        /\ calls = <<>>
        /\ primary = errorOut(NewErr(MsgInvalidParam))

\* C1 amended: with a token that has no "=", configure never issues the
\* PATCH and ends in an error after exactly one GET; if the GET and its
\* decoding succeeded, the error is the invalid-parameter validation error.
C1_MalformedNeverPatched ==
    MalformedCase =>
        /\ ~Sent("PATCH")
        /\ pc \in {"return", "done"} =>
              /\ calls = <<"GET">>
              /\ primary # NoErr
              /\ decoded => primary = errorOut(NewErr(MsgInvalidParam))
        /\ pc = "done" => (outcome = "returned" /\ err # NoErr)

C1_Witness ==
    /\ MalformedCase
    /\ pc = "done"
    /\ ~Malformed(args[1])
    /\ calls = <<"GET">>
    /\ primary = errorOut(NewErr(MsgInvalidParam))

\* C2: when configure has returned, the GET body and the PATCH body it
\* acquired have both been closed.
C2_ConfigureHandlesReleased ==
    (cmd = "configure" /\ pc = "done") =>
        \A b \in {"GET", "PATCH"} : bodies[b] # "open"

\* C3: when a command that failed with a primary error also saw a Close
\* fail, it returns an error made of the primary error's causes followed by
\* every Close error: none replaces the primary error, none is dropped.
C3_CompositeError ==
    (pc = "done" /\ primary # NoErr /\ closeErrs # <<>>) =>
        /\ outcome = "returned"
        /\ err.causes = primary.causes \o closeErrs

C3_Witness ==
    /\ cmd = "configure"
    /\ pc = "done"
    /\ Sent("PATCH")
    /\ primary = errorOut(NewErr(MsgDecode))
    /\ closeErrs # <<>>
    /\ Len(err.causes) >= 2

C5_PatchBody ==
    (cmd = "configure" /\ Sent("PATCH")) =>
        /\ DOMAIN body = {"enabled", "config"}
        /\ body.enabled = backend.enabled
        /\ merged
        /\ body.config = config
        /\ DOMAIN body.config = (DOMAIN backend.config) \cup OverrideKeys(args)
        /\ KeyEnabled \in OverrideKeys(args) =>
              body.config[KeyEnabled]
                  = ParseValue(RawOf(args[LastOf(args, KeyEnabled)]))

C5_Witness ==
    /\ cmd = "configure"
    /\ Sent("PATCH")
    /\ \E i \in 1..Len(args) : args[i] = TokEnabled
    /\ backend.enabled = FALSE
    /\ body.enabled = FALSE
    /\ body.config[KeyEnabled] = TrueVal

\* A required input is missing.
MissingInput ==
    \/ cmd = "create" /\ (args = <<>> \/ chainID = "")
    \/ cmd = "configure" /\ (chainID = "" \/ args = <<>>)
    \/ cmd = "remove" /\ args = <<>>

\* C6: create without a configuration argument or with an empty id,
\* configure with an empty id or without overrides, and remove without an
\* id issue no request and return an error.
C6_MissingInputRejected ==
    MissingInput =>
        /\ calls = <<>>
        /\ \A b \in Bodies : bodies[b] = "absent"
        /\ pc = "done" => (outcome = "returned" /\ err # NoErr /\ err.exit)

C6_Witness ==
    /\ cmd = "configure"
    /\ chainID = ""
    /\ args # <<>>
    /\ pc = "done"
    /\ err = errorOut(NewErr(MsgNoID))

\* C7: configure issues at most a GET and then a PATCH, each once; the
\* PATCH only after the GET succeeded, its response was decoded and every
\* override token was parsed.
C7_GetThenPatch ==
    cmd = "configure" =>
        /\ calls \in {<<>>, <<"GET">>, <<"GET", "PATCH">>}
        /\ Sent("PATCH") =>
              /\ bodies["GET"] # "absent"
              /\ decoded
              /\ \A i \in 1..Len(args) : ~Malformed(args[i])
        /\ decoded => bodies["GET"] # "absent"

C7_Witness ==
    /\ cmd = "configure"
    /\ pc = "done"
    /\ calls = <<"GET", "PATCH">>
    /\ Len(args) = MaxArgs

\* C8: every override pair configure accepts has a non-empty key, and the
\* document sent by PATCH holds no empty-string key.
C8_NoEmptyKey ==
    cmd = "configure" =>
        /\ \A k \in DOMAIN params : k # <<>>
        /\ Sent("PATCH") => <<>> \notin DOMAIN body.config

\* C9: merging the overrides into the merged document again gives the
\* merged document.
C9_MergeIdempotent ==
    (cmd = "configure" /\ merged) =>
        LET again == MergeConfig(config, ParseOverrides(args).params)
        IN  again.ok /\ again.config = config

C9_Witness ==
    /\ cmd = "configure"
    /\ merged
    /\ \E k \in (DOMAIN backend.config) \cap OverrideKeys(args) :
          config[k] # backend.config[k]
    /\ \E k \in OverrideKeys(args) : k \notin DOMAIN backend.config

\* C10: when remove has returned, the body of the DELETE response it
\* acquired has been closed.
C10_DeleteHandleReleased ==
    (cmd = "remove" /\ pc = "done" /\ bodies["DELETE"] # "absent") =>
        bodies["DELETE"] = "closed"

\* C11: what is rendered is the header row [ID, Enabled, Config, Created,
\* Updated] followed by one row per resource, the i-th row being the row of
\* the i-th resource; a single resource gives the header and one row.
C11_HeaderThenRowsInOrder ==
    /\ (output # <<>> /\ cmd # "remove") => table # <<>>
    /\ table # <<>> =>
          /\ table[1] = <<"ID", "Enabled", "Config", "Created", "Updated">>
          /\ Len(table) = 1 + Len(shown)
          /\ \A i \in 1..Len(shown) :
                /\ table[i + 1] = ToRow(shown[i])
                /\ table[i + 1][1] = shown[i].id
          /\ cmd \in {"create", "configure"} => Len(table) = 2

C11_Witness ==
    /\ cmd = "list"
    /\ pc = "done"
    /\ Len(shown) = MaxPage
    /\ shown[1].id = "testnet"
    /\ shown[MaxPage].id = "devnet"
    /\ table[2][1] = "testnet"
    /\ table[2][2] = "false"
    /\ table[MaxPage + 1][1] = "devnet"

\* The parse loop of configure has run.
ParseRan == cmd = "configure" /\ decoded /\ pc # "cfg_parse"

\* configure ended the loop with the invalid-parameter error.
Rejected == primary = errorOut(NewErr(MsgInvalidParam))

\* The number of tokens before the first one without a separator.
Accepted(as) ==
    IF \E i \in 1..Len(as) : Malformed(as[i])
    THEN (CHOOSE i \in 1..Len(as) :
            Malformed(as[i]) /\ \A j \in 1..(i - 1) : ~Malformed(as[j])) - 1
    ELSE Len(as)

\* The accepted token i is the last one accepted for its key.
LastAccepted(as, i) ==
    \A j \in (i + 1)..Accepted(as) : KeyOf(as[j]) # KeyOf(as[i])

\* C12: a token is accepted if and only if it holds an "="; an accepted
\* token gives the key before its first "=" and, as raw value, everything
\* after it, further "=" included.
C12_SplitAtFirstSeparator ==
    ParseRan =>
        /\ Rejected <=> \E i \in 1..Len(args) : Malformed(args[i])
        /\ DOMAIN params = {KeyOf(args[i]) : i \in 1..Accepted(args)}
        /\ \A i \in 1..Accepted(args) :
              LastAccepted(args, i) =>
                  params[KeyOf(args[i])] = ParseValue(RawOf(args[i]))

C12_Witness ==
    /\ ParseRan
    /\ ~Rejected
    /\ args[Len(args)] = TokTwoEq
    /\ DOMAIN params = {KeyA}
    /\ params[KeyA] = StrVal(<<"b", "=", "1">>)

\* The value each raw value of the tokens stands for.
ExpectedValue(raw) ==
    CASE raw = <<"1">> -> NumVal(<<"1">>)
      [] raw = <<"n", "u", "l", "l">> -> NullVal
      [] raw = <<"t", "r", "u", "e">> -> TrueVal
      [] raw = <<Q, "1", Q>> -> StrVal(<<"1">>)
      [] raw = <<"{", Q, "a", Q, ":", "1", "}">> -> Val("obj", raw)
      [] raw = <<"[", "1", "]">> -> Val("arr", raw)
      [] OTHER -> StrVal(raw)

\* C13: the value stored for an override is the structured value of its raw
\* value when that is a JSON literal and the verbatim raw string otherwise,
\* and a raw value that is no JSON never makes configure fail.
C13_StructuredElseVerbatim ==
    ParseRan =>
        /\ \A i \in 1..Accepted(args) :
              LastAccepted(args, i) =>
                  params[KeyOf(args[i])] = ExpectedValue(RawOf(args[i]))
        /\ (\A i \in 1..Len(args) : ~Malformed(args[i])) =>
              /\ primary.causes \in {<<>>, <<MsgTransport>>, <<MsgDecode>>}
              /\ pc \in {"cfg_patch", "cfg_render"} => err = NoErr
              /\ pc \in {"return", "done"} =>
                    \A n \in 1..Len(err.causes) :
                        err.causes[n] # "invalid character"

C13_Witness ==
    /\ ParseRan
    /\ pc = "done"
    /\ args = <<TokObject, TokAx>>
    /\ params[KeyC] = Val("obj", <<"{", Q, "a", Q, ":", "1", "}">>)
    /\ params[KeyA] = StrVal(<<"x">>)
    /\ err = NoErr
    /\ output # <<>>

C15_NoPartialSuccess ==
    cmd = "configure" =>
        /\ (\E i \in 1..Len(args) : Malformed(args[i])) => ~Sent("PATCH")
        /\ primary # NoErr => (table = <<>> /\ output = <<>>)
        /\ (pc = "done" /\ primary # NoErr) =>
              (outcome = "returned" /\ err # NoErr)

\* C16: in configure a Close is only made on a body that was acquired and
\* is still open: no body is closed twice, no deferred closure runs on a nil
\* resp, and each deferred closure closes the body of the response it was
\* registered after.
C16_ReleaseOnlyAcquiredOnce ==
    cmd = "configure" =>
        /\ ~panicking
        /\ \A b \in Bodies : closes[b] <= 1
        /\ closes["ERR"] = 0
        /\ \A i \in 1..Len(closeLog) : closeLog[i][1] = closeLog[i][2]

====
